---- MODULE Spec2Model ----
(***************************************************************************)
(* Gemini Audiobook Creator: the text chunker (splitTextSafe), the chunked *)
(* speech synthesizer (generateSpeech), the application state machine      *)
(* (App) and the player (AudioPlayer), modelled from                       *)
(* services/geminiService.ts, App.tsx and components/AudioPlayer.tsx.      *)
(*                                                                         *)
(* Strings are sequences of one-character strings.  Indices into a text    *)
(* are the 0-based indices of the TypeScript source.                       *)
(***************************************************************************)
EXTENDS Integers, Sequences, FiniteSets, TLC

VARIABLES
    \* splitTextSafe(text, maxLength), one loop iteration per step
    text,        \* the argument text
    maxLength,   \* the argument maxLength
    start,       \* the cursor `start`
    chunks,      \* the result array `chunks`
    splitPc,     \* "off" | "loop" | "done"
    \* generateSpeech(text, voiceName)
    gsText,      \* the argument text
    gsChunks,    \* const chunks
    gsIndex,     \* the 0-based position of the for-of loop in chunks
    audioParts,  \* const audioParts
    gsPc,        \* "off" | "call" | "loop" | "await" | "resolved" | "rejected"
    gsResult,    \* the string the promise resolved with, or NoData
    gsThrown,    \* the message of the error the promise rejected with, or Null
    gsCaught,    \* the error the catch block caught (and logged), or Null
    gsRejections,\* how many errors the caller has observed
    inflight,    \* the chunk indices whose request awaits its response
    gsTrace,     \* history: the requests issued and the responses received
    \* App (App.tsx): the useState values
    appState, logs, file, extractedData, targetLang, selectedVoice, audioBuffer,
    errorMsg, isPreviewLoading,
    \* App: the handlers suspended at an await
    extractRun,  \* handleUploadAndExtract
    previewRun,  \* handlePreview
    genRun,      \* handleGenerateAudiobook
    lastEvent,   \* history: <<who, stage, outcome>> of the last step
    \* AudioPlayer (AudioPlayer.tsx)
    plMounted,   \* 0 when unmounted, else the number of the render that mounted it
    plBuffer,    \* the prop audioBuffer: the number of the buffer, 0 when unmounted
    plRenders,   \* how many buffers AudioPlayer has been rendered with so far
    effectDue,   \* the effects on [audioBuffer] of the last render have not run yet
    effectUrl,   \* `url` in the closure of the download effect's cleanup, 0 for none
    liveUrls,    \* the object URLs created and not revoked
    downloadUrl, \* the state downloadUrl, 0 for the empty string
    isPlaying,   \* the state isPlaying
    sourceRef,   \* sourceRef.current: a source node number, 0 for null
    sources,     \* the source nodes created so far: [state, player]
    plLast,      \* history: the last step of the player
    \* drawWaveform, one column per step
    wfData,      \* audioBuffer.getChannelData(0)
    wfWidth,     \* canvas.width
    wfI,         \* the column index i
    wfColumns,   \* history: the [min, max] of the columns drawn so far
    wfPc         \* "off" | "loop" | "done"

splitVars == <<text, maxLength, start, chunks, splitPc>>

speechVars == <<gsText, gsChunks, gsIndex, audioParts, gsPc, gsResult, gsThrown,
                gsCaught, gsRejections, inflight, gsTrace>>

appVars == <<appState, logs, file, extractedData, targetLang, selectedVoice,
             audioBuffer, errorMsg, isPreviewLoading, extractRun, previewRun, genRun,
             lastEvent>>

playerVars == <<plMounted, plBuffer, plRenders, effectDue, effectUrl, liveUrls,
                downloadUrl, isPlaying, sourceRef, sources, plLast>>

waveVars == <<wfData, wfWidth, wfI, wfColumns, wfPc>>

vars == <<splitVars, speechVars, appVars, playerVars, waveVars>>

\* AudioPlayer is not rendered
PlayerOff ==
    /\ plMounted = 0
    /\ plBuffer = 0
    /\ plRenders = 0
    /\ effectDue = FALSE
    /\ effectUrl = 0
    /\ liveUrls = {}
    /\ downloadUrl = 0
    /\ isPlaying = FALSE
    /\ sourceRef = 0
    /\ sources = <<>>
    /\ plLast = "off"

\* drawWaveform is not running
WaveOff ==
    /\ wfData = <<>>
    /\ wfWidth = 1
    /\ wfI = 0
    /\ wfColumns = <<>>
    /\ wfPc = "off"

\* null, where the other values are strings
Null == "null"
\* extractedData is <<>> for null and <<document>> for a document
\* undefined / null, where the other values are base64 strings
NoData == <<-1>>

(***************************************************************************)
(* Bounds of the model.                                                    *)
(***************************************************************************)
\* longest text of the exhaustively enumerated inputs of splitTextSafe
MaxTextLen == 5
\* largest maxLength of the exhaustively enumerated inputs of splitTextSafe
MaxBudget == 3
\* longest text handed to generateSpeech
MaxSpeechTextLen == 8
\* how many audio buffers AudioPlayer is rendered with
MaxRenders == 3
\* how many source nodes playAudio creates
MaxSources == 3
\* longest sample array handed to drawWaveform
MaxSamples == 4
\* largest canvas width of drawWaveform (600 in the source)
MaxWidth == 3
\* longest text of the splitTextSafe calls whose termination is checked
MaxLiveSplitLen == 3
\* longest text of the generateSpeech calls whose progress is checked
MaxLiveTextLen == 5
\* TTS_CHUNK_SIZE (constants.ts), which is 3000 in the source: scaled down to
\* the bounded texts so that a text splits into several chunks
TTS_CHUNK_SIZE == 2

(***************************************************************************)
(* Strings.                                                                *)
(***************************************************************************)
\* the characters of the bounded texts: a letter and every character that
\* occurs in a split point
Alphabet == {"a", ".", "?", "!", "\n", " "}

Texts == UNION {[1..n -> Alphabet] : n \in 0..MaxTextLen}

\* the spec's worked example, "Hello world. Next sentence here"
ExampleText ==
    <<"H","e","l","l","o"," ","w","o","r","l","d","."," ","N","e","x","t",
      " ","s","e","n","t","e","n","c","e"," ","h","e","r","e">>

\* "a.  . ": a sentence end at index 1, a bare space at 3, a sentence end at 4
ShadowText == <<"a", ".", " ", " ", ".", " ">>

\* "a aaaa": a bare space at index 1, then a run longer than a budget of 3
GreedyText == <<"a", " ", "a", "a", "a", "a">>

\* inputs of splitTextSafe beyond the exhaustively enumerated ones, each with
\* its maxLength
NamedInputs == {<<ExampleText, 20>>, <<ShadowText, 4>>, <<GreedyText, 3>>}

Min(a, b) == IF a <= b THEN a ELSE b
Max(a, b) == IF a >= b THEN a ELSE b

\* String.prototype.slice(from, to) for 0 <= from: `to` is clamped to the length
Slice(t, from, to) == SubSeq(t, from + 1, Min(to, Len(t)))

\* whether `p` occurs in `t` at 0-based index i
OccursAt(t, p, i) ==
    /\ i >= 0
    /\ i + Len(p) <= Len(t)
    /\ \A k \in 1..Len(p) : t[i + k] = p[k]

\* String.prototype.lastIndexOf(p, position): the largest index <= position
\* at which p occurs, or -1
LastIndexOf(t, p, position) ==
    LET hits == {i \in 0..Min(position, Len(t) - Len(p)) : OccursAt(t, p, i)}
    IN  IF hits = {} THEN -1 ELSE CHOOSE i \in hits : \A j \in hits : j <= i

\* IsBlank testing the chunk itself rather than chunk.trim()
IsBlank_Untrimmed(t) == t = <<>>

\* String.prototype.trim() leaves nothing: every character is whitespace
IsBlank(t) == \A k \in 1..Len(t) : t[k] \in {" ", "\n"}

RECURSIVE Concat(_)
\* the concatenation of a sequence of strings (or of byte buffers)
Concat(ss) == IF ss = <<>> THEN <<>> ELSE Head(ss) \o Concat(Tail(ss))

(***************************************************************************)
(* splitTextSafe (services/geminiService.ts)                               *)
(***************************************************************************)
\* const splitPoints = ['. ', '? ', '! ', '.\n', ' ']
splitPoints == << <<".", " ">>, <<"?", " ">>, <<"!", " ">>, <<".", "\n">>, <<" ">> >>

\* PointAccepted without the test lastPointIndex > start
PointAccepted_NoCursorTest(lastPointIndex, st, end) ==
    lastPointIndex >= 0 /\ lastPointIndex < end

\* the test of the for-loop's if: lastPointIndex > start && lastPointIndex < end
PointAccepted(lastPointIndex, st, end) ==
    lastPointIndex > st /\ lastPointIndex < end

\* the split points the for-loop would accept, by their index in splitPoints
AcceptedPoints(t, st, end) ==
    {n \in 1..Len(splitPoints) :
        PointAccepted(LastIndexOf(t, splitPoints[n], end), st, end)}

\* foundSplit after the for-loop
FoundSplit(t, st, L) == AcceptedPoints(t, st, st + L) # {}

\* the end a marker cut uses: end = lastPointIndex + point.length
MarkerEnd(lastPointIndex, point) == lastPointIndex + Len(point)

\* `end` when the chunk is pushed: the first accepted split point in
\* preference order (the loop breaks there), or the hard split
SplitEnd(t, st, L) ==
    LET end == st + L
        acc == AcceptedPoints(t, st, end)
    IN  IF acc = {} THEN end
        ELSE LET n == CHOOSE m \in acc : \A k \in acc : m <= k
             IN  MarkerEnd(LastIndexOf(t, splitPoints[n], end), splitPoints[n])

\* if (text.length - start <= maxLength) { chunks.push(text.slice(start)); break; }
SplitFinal ==
    /\ splitPc = "loop"
    /\ start < Len(text)
    /\ Len(text) - start <= maxLength
    /\ chunks' = Append(chunks, Slice(text, start, Len(text)))
    /\ splitPc' = "done"
    /\ UNCHANGED <<text, maxLength, start>>
    /\ UNCHANGED <<speechVars, appVars, playerVars, waveVars>>

\* SplitAtMarker with the pushed chunk ending before the marker's last
\* character while the cursor still moves past it
SplitAtMarker_DropsLastChar ==
    /\ splitPc = "loop"
    /\ start < Len(text)
    /\ Len(text) - start > maxLength
    /\ FoundSplit(text, start, maxLength)
    /\ LET end == SplitEnd(text, start, maxLength)
       IN  /\ chunks' = Append(chunks, Slice(text, start, end - 1))
           /\ start' = end
    /\ UNCHANGED <<text, maxLength, splitPc>>
    /\ UNCHANGED <<speechVars, appVars, playerVars, waveVars>>

\* an iteration that found a split point: the chunk ends after the marker
SplitAtMarker ==
    /\ splitPc = "loop"
    /\ start < Len(text)
    /\ Len(text) - start > maxLength
    /\ FoundSplit(text, start, maxLength)
    /\ LET end == SplitEnd(text, start, maxLength)
       IN  /\ chunks' = Append(chunks, Slice(text, start, end))
           /\ start' = end
    /\ UNCHANGED <<text, maxLength, splitPc>>
    /\ UNCHANGED <<speechVars, appVars, playerVars, waveVars>>

\* SplitHard cutting one character past start + maxLength
SplitHard_OneTooFar ==
    /\ splitPc = "loop"
    /\ start < Len(text)
    /\ Len(text) - start > maxLength
    /\ ~FoundSplit(text, start, maxLength)
    /\ LET end == start + maxLength + 1
       IN  /\ chunks' = Append(chunks, Slice(text, start, end))
           /\ start' = end
    /\ UNCHANGED <<text, maxLength, splitPc>>
    /\ UNCHANGED <<speechVars, appVars, playerVars, waveVars>>

\* an iteration that found none: if (!foundSplit) end = start + maxLength
SplitHard ==
    /\ splitPc = "loop"
    /\ start < Len(text)
    /\ Len(text) - start > maxLength
    /\ ~FoundSplit(text, start, maxLength)
    /\ LET end == start + maxLength
       IN  /\ chunks' = Append(chunks, Slice(text, start, end))
           /\ start' = end
    /\ UNCHANGED <<text, maxLength, splitPc>>
    /\ UNCHANGED <<speechVars, appVars, playerVars, waveVars>>

\* the while condition fails: return chunks
SplitReturn ==
    /\ splitPc = "loop"
    /\ start >= Len(text)
    /\ splitPc' = "done"
    /\ UNCHANGED <<text, maxLength, start, chunks>>
    /\ UNCHANGED <<speechVars, appVars, playerVars, waveVars>>

\* a speech call of a handler that has made none
NoSpeech == [chs |-> <<>>, idx |-> 0, parts |-> 0, out |-> FALSE]

\* a handler that is not running
IdleRun ==
    [pc |-> "idle", text |-> <<>>, voice |-> Null, sp |-> NoSpeech,
     calls |-> [translate |-> 0, speech |-> 0, decode |-> 0]]

\* the App component as mounted: the initial useState values, no handler run
AppMounted ==
    /\ appState = "IDLE"
    /\ logs = <<>>
    /\ file = Null
    /\ extractedData = <<>>
    /\ targetLang = "en"
    /\ selectedVoice = "Puck"
    /\ audioBuffer = Null
    /\ errorMsg = Null
    /\ isPreviewLoading = FALSE
    /\ extractRun = [pc |-> "idle", calls |-> 0]
    /\ previewRun = IdleRun
    /\ genRun = IdleRun
    /\ lastEvent = <<"app", "mount", "ok">>

\* no generateSpeech call is modelled
SpeechOff ==
    /\ gsText = <<>>
    /\ gsChunks = <<>>
    /\ gsIndex = 0
    /\ audioParts = <<>>
    /\ gsPc = "off"
    /\ gsResult = NoData
    /\ gsThrown = Null
    /\ gsCaught = Null
    /\ gsRejections = 0
    /\ inflight = {}
    /\ gsTrace = <<>>

SplitInit ==
    /\ PlayerOff
    /\ WaveOff
    /\ SpeechOff
    /\ AppMounted
    /\ \/ text \in Texts /\ maxLength \in 1..MaxBudget
       \/ \E in \in NamedInputs : text = in[1] /\ maxLength = in[2]
    /\ start = 0
    /\ chunks = <<>>
    /\ splitPc = "loop"

SplitNext == SplitFinal \/ SplitAtMarker \/ SplitHard \/ SplitReturn

SplitSpec == SplitInit /\ [][SplitNext]_vars

RECURSIVE SplitFrom(_, _, _, _)
\* the while loop of splitTextSafe run to its end, from cursor st with the
\* chunks acc pushed so far
SplitFrom(t, st, L, acc) ==
    IF st >= Len(t) THEN acc
    ELSE IF Len(t) - st <= L THEN Append(acc, Slice(t, st, Len(t)))
    ELSE \* `end` is computed once per iteration, as the loop does
         CHOOSE result \in {SplitFrom(t, end, L, Append(acc, Slice(t, st, end))) :
                               end \in {SplitEnd(t, st, L)}} : TRUE

\* splitTextSafe(text, maxLength)
splitTextSafe(t, L) == SplitFrom(t, 0, L, <<>>)

(***************************************************************************)
(* Claims about splitTextSafe, checked under SplitSpec.                    *)
(***************************************************************************)
\* the 0-based index in text at which chunk k of cs starts
RECURSIVE OffsetOf(_, _)
OffsetOf(cs, k) == IF k <= 1 THEN 0 ELSE OffsetOf(cs, k - 1) + Len(cs[k - 1])

\* C1: when splitTextSafe returns, the chunks concatenated in their returned
\* order are exactly the text, and while it runs the chunks pushed so far
\* are exactly the text before the cursor: nothing is dropped, duplicated or
\* reordered at a chunk boundary.
C1_ChunkReconstruction ==
    /\ splitPc = "done" => Concat(chunks) = text
    /\ splitPc = "loop" => Concat(chunks) = Slice(text, 0, start)

\* a returned result with a marker cut and at least three chunks
C1_Witness ==
    /\ splitPc = "done"
    /\ Len(chunks) >= 3
    /\ \E k \in 1..Len(chunks) - 1 : chunks[k][Len(chunks[k])] = " "
    /\ Concat(chunks) = text

\* no split point occurs in c: c is one indivisible run of non-boundary
\* characters
IndivisibleRun(c) ==
    \A n \in 1..Len(splitPoints) : \A i \in 0..Len(c) : ~OccursAt(c, splitPoints[n], i)

\* C2: every chunk has length at most maxLength, except a chunk that is one
\* indivisible run of non-boundary characters longer than maxLength; so no
\* chunk ending after a two-character marker has length maxLength + 1.
C2_ChunkBound ==
    \A k \in 1..Len(chunks) :
        Len(chunks[k]) <= maxLength \/ IndivisibleRun(chunks[k])

\* the split points that occur at an index i with st < i <= hi
PointsIn(t, st, hi) ==
    {n \in 1..Len(splitPoints) : \E i \in (st + 1)..hi : OccursAt(t, splitPoints[n], i)}

\* the cut C3 describes for the window st < i <= hi: right after the last
\* occurrence in the window of the marker of highest preference that occurs
\* in it (no marker in the window: nothing is said, any cut c will do)
PreferredCut(t, st, hi, c) ==
    LET ps == PointsIn(t, st, hi)
    IN  IF ps = {} THEN c
        ELSE LET n == CHOOSE m \in ps : \A k \in ps : m <= k
                 i == CHOOSE j \in (st + 1)..hi :
                        /\ OccursAt(t, splitPoints[n], j)
                        /\ \A l \in (j + 1)..hi : ~OccursAt(t, splitPoints[n], l)
             IN  i + Len(splitPoints[n])

\* C3: whenever the unconsumed text is longer than maxLength, the chunk ends
\* right after the last occurrence of the highest-preference marker lying
\* strictly after the cursor and at or before cursor + maxLength (read with
\* the marker starting at or before cursor + maxLength, or with it starting
\* before cursor + maxLength: either reading will do, chunk by chunk); and
\* "Hello world. Next sentence here" with maxLength 20 starts with the chunk
\* "Hello world. ".
C3_BoundaryPreference ==
    /\ \A k \in 1..Len(chunks) :
          LET st  == OffsetOf(chunks, k)
              end == st + Len(chunks[k])
          IN  Len(text) - st > maxLength =>
                \/ end = PreferredCut(text, st, st + maxLength, end)
                \/ end = PreferredCut(text, st, st + maxLength - 1, end)
    /\ (text = ExampleText /\ maxLength = 20 /\ Len(chunks) >= 1) =>
          chunks[1] = Slice(ExampleText, 0, 13)

(***************************************************************************)
(* utils/audioHelper: base64 and byte buffers.  A byte is a number in      *)
(* 0..255; a base64 string is a sequence of numbers: 0..63 stand for the   *)
(* 64 characters of the base64 alphabet, Pad for "=", any other number for *)
(* a character outside the alphabet.                                       *)
(***************************************************************************)
Pad == 64

RECURSIVE bytesToBase64(_)
\* bytesToBase64(bytes): three bytes to four characters, "=" padded
bytesToBase64(bs) ==
    IF Len(bs) = 0 THEN <<>>
    ELSE IF Len(bs) = 1 THEN
        <<bs[1] \div 4, (bs[1] % 4) * 16, Pad, Pad>>
    ELSE IF Len(bs) = 2 THEN
        <<bs[1] \div 4, (bs[1] % 4) * 16 + bs[2] \div 16, (bs[2] % 16) * 4, Pad>>
    ELSE
        <<bs[1] \div 4, (bs[1] % 4) * 16 + bs[2] \div 16,
          (bs[2] % 16) * 4 + bs[3] \div 64, bs[3] % 64>>
        \o bytesToBase64(SubSeq(bs, 4, Len(bs)))

\* a base64 string without its trailing padding (at most two "=")
Unpadded(b64) ==
    LET n == Len(b64)
    IN  IF n % 4 # 0 \/ n = 0 THEN b64
        ELSE IF b64[n] = Pad /\ b64[n - 1] = Pad THEN SubSeq(b64, 1, n - 2)
        ELSE IF b64[n] = Pad THEN SubSeq(b64, 1, n - 1)
        ELSE b64

\* whether base64ToBytes accepts the string: only alphabet characters before
\* the padding, and a length that some byte sequence encodes to
IsBase64(b64) ==
    LET u == Unpadded(b64)
    IN  /\ \A k \in 1..Len(u) : u[k] \in 0..63
        /\ Len(u) % 4 # 1

RECURSIVE DecodeSextets(_)
DecodeSextets(u) ==
    IF Len(u) < 2 THEN <<>>
    ELSE IF Len(u) = 2 THEN
        <<u[1] * 4 + u[2] \div 16>>
    ELSE IF Len(u) = 3 THEN
        <<u[1] * 4 + u[2] \div 16, (u[2] % 16) * 16 + u[3] \div 4>>
    ELSE
        <<u[1] * 4 + u[2] \div 16, (u[2] % 16) * 16 + u[3] \div 4,
          (u[3] % 4) * 64 + u[4]>>
        \o DecodeSextets(SubSeq(u, 5, Len(u)))

\* base64ToBytes(base64) for a string it accepts (it throws on the others)
base64ToBytes(b64) == DecodeSextets(Unpadded(b64))

\* concatenateBytes(parts): the buffers one after the other, in order
concatenateBytes(parts) == Concat(parts)

(***************************************************************************)
(* The speech-synthesis collaborator (ai.models.generateContent).          *)
(***************************************************************************)
\* raw PCM buffers the collaborator may synthesize
AudioSamples == {<<1>>, <<2, 3>>}

\* a string with a character outside the base64 alphabet
MalformedPayload == <<0, 99>>

\* what response.candidates?.[0]?.content?.parts?.[0]?.inlineData?.data can
\* be: undefined, the empty string, a base64 payload, any other string
ResponseData ==
    {NoData, <<>>, MalformedPayload} \cup {bytesToBase64(b) : b \in AudioSamples}

\* if (base64Audio): the data is neither undefined nor the empty string
Truthy(data) == data # NoData /\ data # <<>>

(***************************************************************************)
(* generateSpeech (services/geminiService.ts)                              *)
(***************************************************************************)
NoAudioError == "No audio generated from text."
SpeechError == "Failed to generate speech audio."

\* GsCatch with "throw error": the caught error is passed on to the caller
GsCatch_Rethrows(error) ==
    /\ gsCaught' = error
    /\ gsThrown' = error
    /\ gsRejections' = gsRejections + 1
    /\ gsPc' = "rejected"

\* catch (error) { console.error("TTS Error:", error); throw new Error(...) }
GsCatch(error) ==
    /\ gsCaught' = error
    /\ gsThrown' = SpeechError
    /\ gsRejections' = gsRejections + 1
    /\ gsPc' = "rejected"

\* const chunks = splitTextSafe(text, TTS_CHUNK_SIZE); const audioParts = []
GsCall ==
    /\ gsPc = "call"
    /\ gsChunks' = splitTextSafe(gsText, TTS_CHUNK_SIZE)
    /\ gsIndex' = 0
    /\ audioParts' = <<>>
    /\ gsPc' = "loop"
    /\ UNCHANGED <<gsText, gsResult, gsThrown, gsCaught, gsRejections, inflight, gsTrace>>
    /\ UNCHANGED <<splitVars, appVars, playerVars, waveVars>>

\* GsSkip that does not move on to the next chunk
GsSkip_StaysOnChunk ==
    /\ gsPc = "loop"
    /\ gsIndex < Len(gsChunks)
    /\ IsBlank(gsChunks[gsIndex + 1])
    /\ UNCHANGED <<gsText, gsChunks, gsIndex, audioParts, gsPc, gsResult, gsThrown, gsCaught,
                   gsRejections, inflight, gsTrace>>
    /\ UNCHANGED <<splitVars, appVars, playerVars, waveVars>>

\* if (!chunk.trim()) continue;
GsSkip ==
    /\ gsPc = "loop"
    /\ gsIndex < Len(gsChunks)
    /\ IsBlank(gsChunks[gsIndex + 1])
    /\ gsIndex' = gsIndex + 1
    /\ UNCHANGED <<gsText, gsChunks, audioParts, gsPc, gsResult, gsThrown, gsCaught,
                   gsRejections, inflight, gsTrace>>
    /\ UNCHANGED <<splitVars, appVars, playerVars, waveVars>>

\* GsRequest without the await: the loop goes on while the request is out
GsRequest_NoAwait ==
    /\ gsPc = "loop"
    /\ gsIndex < Len(gsChunks)
    /\ ~IsBlank(gsChunks[gsIndex + 1])
    /\ inflight' = inflight \cup {gsIndex}
    /\ gsTrace' = Append(gsTrace, [kind |-> "request", chunk |-> gsIndex, data |-> NoData])
    /\ gsIndex' = gsIndex + 1
    /\ UNCHANGED <<gsText, gsChunks, audioParts, gsPc, gsResult, gsThrown, gsCaught,
                   gsRejections>>
    /\ UNCHANGED <<splitVars, appVars, playerVars, waveVars>>

\* const response = await ai.models.generateContent(...): the request is sent
\* and the function suspends
GsRequest ==
    /\ gsPc = "loop"
    /\ gsIndex < Len(gsChunks)
    /\ ~IsBlank(gsChunks[gsIndex + 1])
    /\ inflight' = inflight \cup {gsIndex}
    /\ gsTrace' = Append(gsTrace, [kind |-> "request", chunk |-> gsIndex, data |-> NoData])
    /\ gsPc' = "await"
    /\ UNCHANGED <<gsText, gsChunks, gsIndex, audioParts, gsResult, gsThrown, gsCaught,
                   gsRejections>>
    /\ UNCHANGED <<splitVars, appVars, playerVars, waveVars>>

\* GsResponse with the decoded payload put in front (unshift for push)
GsResponse_Unshift ==
    /\ gsPc = "await"
    /\ \E k \in inflight, data \in ResponseData :
          /\ inflight' = inflight \ {k}
          /\ gsTrace' = Append(gsTrace, [kind |-> "response", chunk |-> k, data |-> data])
          /\ IF Truthy(data) /\ ~IsBase64(data)
                THEN /\ GsCatch("base64ToBytes failed")
                     /\ UNCHANGED <<gsIndex, audioParts>>
                ELSE /\ audioParts' = IF Truthy(data)
                                         THEN <<base64ToBytes(data)>> \o audioParts
                                         ELSE audioParts
                     /\ gsIndex' = gsIndex + 1
                     /\ gsPc' = "loop"
                     /\ UNCHANGED <<gsThrown, gsCaught, gsRejections>>
    /\ UNCHANGED <<gsText, gsChunks, gsResult>>
    /\ UNCHANGED <<splitVars, appVars, playerVars, waveVars>>

\* the response arrives: the payload is decoded and pushed, or its absence
\* is warned about, and the loop goes on; base64ToBytes throwing ends in catch
GsResponse ==
    /\ gsPc = "await"
    /\ \E k \in inflight, data \in ResponseData :
          /\ inflight' = inflight \ {k}
          /\ gsTrace' = Append(gsTrace, [kind |-> "response", chunk |-> k, data |-> data])
          /\ IF Truthy(data) /\ ~IsBase64(data)
                THEN /\ GsCatch("base64ToBytes failed")
                     /\ UNCHANGED <<gsIndex, audioParts>>
                ELSE /\ audioParts' = IF Truthy(data)
                                         THEN Append(audioParts, base64ToBytes(data))
                                         ELSE audioParts
                     /\ gsIndex' = gsIndex + 1
                     /\ gsPc' = "loop"
                     /\ UNCHANGED <<gsThrown, gsCaught, gsRejections>>
    /\ UNCHANGED <<gsText, gsChunks, gsResult>>
    /\ UNCHANGED <<splitVars, appVars, playerVars, waveVars>>

\* GsRequestFails with the failure caught per chunk: the chunk is dropped
\* and the loop goes on
GsRequestFails_DropsChunk ==
    /\ gsPc = "await"
    /\ \E k \in inflight :
          /\ inflight' = inflight \ {k}
          /\ gsTrace' = Append(gsTrace, [kind |-> "failure", chunk |-> k, data |-> NoData])
    /\ gsIndex' = gsIndex + 1
    /\ gsPc' = "loop"
    /\ UNCHANGED <<gsText, gsChunks, audioParts, gsResult, gsThrown, gsCaught, gsRejections>>
    /\ UNCHANGED <<splitVars, appVars, playerVars, waveVars>>

\* the request fails (transport): the await throws, the catch block runs
GsRequestFails ==
    /\ gsPc = "await"
    /\ \E k \in inflight :
          /\ inflight' = inflight \ {k}
          /\ gsTrace' = Append(gsTrace, [kind |-> "failure", chunk |-> k, data |-> NoData])
    /\ GsCatch("request failed")
    /\ UNCHANGED <<gsText, gsChunks, gsIndex, audioParts, gsResult>>
    /\ UNCHANGED <<splitVars, appVars, playerVars, waveVars>>

\* GsFinish without the audioParts.length === 0 test
GsFinish_NoEmptyTest ==
    /\ gsPc = "loop"
    /\ gsIndex >= Len(gsChunks)
    /\ gsResult' = bytesToBase64(concatenateBytes(audioParts))
    /\ gsPc' = "resolved"
    /\ UNCHANGED <<gsThrown, gsCaught, gsRejections>>
    /\ UNCHANGED <<gsText, gsChunks, gsIndex, audioParts, inflight, gsTrace>>
    /\ UNCHANGED <<splitVars, appVars, playerVars, waveVars>>

\* after the loop: throw when audioParts is empty, else merge and return
GsFinish ==
    /\ gsPc = "loop"
    /\ gsIndex >= Len(gsChunks)
    /\ IF Len(audioParts) = 0
         THEN /\ GsCatch(NoAudioError)
              /\ UNCHANGED gsResult
         ELSE /\ gsResult' = bytesToBase64(concatenateBytes(audioParts))
              /\ gsPc' = "resolved"
              /\ UNCHANGED <<gsThrown, gsCaught, gsRejections>>
    /\ UNCHANGED <<gsText, gsChunks, gsIndex, audioParts, inflight, gsTrace>>
    /\ UNCHANGED <<splitVars, appVars, playerVars, waveVars>>

\* no splitTextSafe call is modelled step by step
SplitOff ==
    /\ text = <<>>
    /\ maxLength = 1
    /\ start = 0
    /\ chunks = <<>>
    /\ splitPc = "off"

\* the characters of the texts handed to generateSpeech
SpeechAlphabet == {"a", " "}

SpeechTexts == UNION {[1..n -> SpeechAlphabet] : n \in 0..MaxSpeechTextLen}

SpeechInit ==
    /\ PlayerOff
    /\ WaveOff
    /\ SplitOff
    /\ AppMounted
    /\ gsText \in SpeechTexts
    /\ gsChunks = <<>>
    /\ gsIndex = 0
    /\ audioParts = <<>>
    /\ gsPc = "call"
    /\ gsResult = NoData
    /\ gsThrown = Null
    /\ gsCaught = Null
    /\ gsRejections = 0
    /\ inflight = {}
    /\ gsTrace = <<>>

SpeechNext == GsCall \/ GsSkip \/ GsRequest \/ GsResponse \/ GsRequestFails \/ GsFinish

SpeechSpec == SpeechInit /\ [][SpeechNext]_vars

(***************************************************************************)
(* Claims about generateSpeech, checked under SpeechSpec.                  *)
(***************************************************************************)
\* the positions of gsTrace holding an event of one of the kinds
Events(kinds) == {p \in 1..Len(gsTrace) : gsTrace[p].kind \in kinds}

\* the call has settled: its promise is resolved or rejected
GsSettled == gsPc \in {"resolved", "rejected"}

\* a response carried an audio payload (a non-empty data string)
PayloadAt(p) == gsTrace[p].kind = "response" /\ gsTrace[p].data \notin {NoData, <<>>}

\* a response carried a payload that is not base64
UndecodableAt(p) == PayloadAt(p) /\ ~IsBase64(gsTrace[p].data)

\* the raw bytes the collaborator synthesized for the payload of a response:
\* the sample whose encoding the payload is
SamplesOf(data) == CHOOSE b \in AudioSamples : bytesToBase64(b) = data

RECURSIVE PresentBytes(_)
\* the bytes of the payloads present in a trace, in the order of the trace
PresentBytes(tr) ==
    IF tr = <<>> THEN <<>>
    ELSE IF Head(tr).kind = "response" /\ Head(tr).data \in {bytesToBase64(b) : b \in AudioSamples}
        THEN SamplesOf(Head(tr).data) \o PresentBytes(Tail(tr))
        ELSE PresentBytes(Tail(tr))

\* C4: a request is issued only after every earlier request of the call has
\* got its response or failure; requests go out in increasing chunk index
\* and at most one is outstanding at any time.
C4_OneRequestAtATime ==
    /\ Cardinality(inflight) <= 1
    /\ \A p \in Events({"request"}) : \A q \in Events({"request"}) :
          q < p =>
            /\ gsTrace[q].chunk < gsTrace[p].chunk
            /\ \E r \in Events({"response", "failure"}) :
                  q < r /\ r < p /\ gsTrace[r].chunk = gsTrace[q].chunk

\* a third request has been issued and is outstanding
C4_Witness ==
    /\ Cardinality(Events({"request"})) >= 3
    /\ inflight # {}

AllChunksProcessed ==
    /\ GsSettled
    /\ Events({"failure"}) = {}
    /\ \A p \in Events({"response"}) : ~UndecodableAt(p)

\* C6: when all chunks are processed and none yielded audio (no payload in
\* any response, only whitespace chunks, or an empty text), the call fails
\* on the "No audio generated" error and returns no stream.
C6_NoAudioFails ==
    (AllChunksProcessed /\ \A p \in Events({"response"}) : ~PayloadAt(p))
        => /\ gsPc = "rejected"
           /\ gsCaught = NoAudioError
           /\ gsThrown # Null
           /\ gsResult = NoData

\* a call rejected after two responses without payload
C6_Witness ==
    /\ gsPc = "rejected"
    /\ Events({"failure"}) = {}
    /\ Cardinality(Events({"response"})) >= 2
    /\ \A p \in Events({"response"}) : ~PayloadAt(p)

\* C7: once a request has failed, the call is rejected at once: the failure
\* is the last event (no later request), no chunk is requested twice, the
\* bytes collected so far are not returned, and the caller has observed
\* exactly one error.
C7_FailureAborts ==
    /\ \A p \in Events({"failure"}) :
          /\ p = Len(gsTrace)
          /\ gsPc = "rejected"
          /\ gsResult = NoData
          /\ gsRejections = 1
    /\ \A p \in Events({"request"}) : \A q \in Events({"request"}) :
          gsTrace[p].chunk = gsTrace[q].chunk => p = q

\* the second request failed after the first one had yielded bytes, with a
\* chunk still to come
C7_Witness ==
    /\ Events({"failure"}) # {}
    /\ \E p \in Events({"response"}) : PayloadAt(p)
    /\ audioParts # <<>>
    /\ \E i \in (gsIndex + 1)..(Len(gsChunks) - 1) :
          \E k \in 1..Len(gsChunks[i + 1]) : gsChunks[i + 1][k] # " "

\* the number of requests issued for chunk i
RequestsFor(i) == Cardinality({p \in Events({"request"}) : gsTrace[p].chunk = i})

\* the chunk has a character that is not whitespace
HasNonWhitespace(c) == \E k \in 1..Len(c) : c[k] \notin {" ", "\n"}

UpperCase == <<"A","B","C","D","E","F","G","H","I","J","K","L","M",
               "N","O","P","Q","R","S","T","U","V","W","X","Y","Z">>
LowerCase == <<"a","b","c","d","e","f","g","h","i","j","k","l","m",
               "n","o","p","q","r","s","t","u","v","w","x","y","z">>

\* String.prototype.toLowerCase()
ToLowerCase(str) ==
    [k \in 1..Len(str) |->
        IF \E i \in 1..Len(UpperCase) : UpperCase[i] = str[k]
            THEN LowerCase[CHOOSE i \in 1..Len(UpperCase) : UpperCase[i] = str[k]]
            ELSE str[k]]

\* String.prototype.includes(sub)
Includes(str, sub) == \E i \in 0..(Len(str) - Len(sub)) : OccursAt(str, sub, i)

\* SUPPORTED_LANGUAGES (constants.ts), its first, second and last entry
SUPPORTED_LANGUAGES ==
    << [code |-> "en", name |-> <<"E","n","g","l","i","s","h">>, voiceName |-> "Puck"],
       [code |-> "hi", name |-> <<"H","i","n","d","i">>, voiceName |-> "Kore"],
       [code |-> "de", name |-> <<"G","e","r","m","a","n">>, voiceName |-> "Charon"] >>

\* VOICE_OPTIONS (constants.ts), the voices of the languages above
VOICE_OPTIONS == <<"Puck", "Charon", "Kore">>

LanguageCodes == {SUPPORTED_LANGUAGES[i].code : i \in 1..Len(SUPPORTED_LANGUAGES)}

\* SUPPORTED_LANGUAGES.find(l => l.code === code), for a code of the table
LangConfig(code) ==
    SUPPORTED_LANGUAGES[CHOOSE i \in 1..Len(SUPPORTED_LANGUAGES) :
                            SUPPORTED_LANGUAGES[i].code = code]

\* detectedLanguage.toLowerCase().includes(name.toLowerCase())
DetectedIncludes(detectedLanguage, name) ==
    Includes(ToLowerCase(detectedLanguage), ToLowerCase(name))

\* the indices of the entries SUPPORTED_LANGUAGES.find(...) of
\* handleUploadAndExtract could return
MatchingLanguages(detectedLanguage) ==
    {i \in 1..Len(SUPPORTED_LANGUAGES) :
        DetectedIncludes(detectedLanguage, SUPPORTED_LANGUAGES[i].name)}

\* NeedsTranslation without the two toLowerCase() calls
NeedsTranslation_CaseSensitive(data, code) ==
    ~Includes(data.detectedLanguage, LangConfig(code).name)

\* const needsTranslation = !detectedLanguage.toLowerCase().includes(...)
NeedsTranslation(data, code) ==
    ~DetectedIncludes(data.detectedLanguage, LangConfig(code).name)

\* the useEffect on [targetLang]: the voice after targetLang became `code`
VoiceAfterLang(code, voice) ==
    IF code # targetLang THEN LangConfig(code).voiceName ELSE voice

\* addLog(message)
AddLog(ls, message) == Append(ls, message)

\* the file the user may pick
Files == {"book.pdf"}

\* what extractTextAndLanguage may resolve with
DocTexts == {<<" ">>, <<"a">>, <<"a", " ", "a">>}
DetectedLanguages ==
    {<<"E","n","g","l","i","s","h">>, <<"h","i","n","d","i">>, <<"L","a","t","i","n">>}
Documents == [text : DocTexts, detectedLanguage : DetectedLanguages]

\* what translateText may resolve with (response.text || "")
Translations == {<<>>, <<"a", "a", "a">>}

ExtractionError == "Failed to process document. Please try a different file."
TranslationError == "Failed to translate text."

(***************************************************************************)
(* App: a generateSpeech call as a handler sees it.  chs are the chunks,   *)
(* idx the chunk whose request is out (or Len(chs) past the loop), parts   *)
(* is audioParts.length, out whether a request awaits its response.        *)
(***************************************************************************)
\* the first chunk at or after i that is not skipped, or Len(chs)
NextSpoken(chs, i) ==
    LET js == {j \in i..(Len(chs) - 1) : ~IsBlank(chs[j + 1])}
    IN  IF js = {} THEN Len(chs) ELSE CHOOSE j \in js : \A k \in js : j <= k

\* generateSpeech(t, voice) up to its first await
SpeechCall(t) ==
    LET chs == splitTextSafe(t, TTS_CHUNK_SIZE)
        idx == NextSpoken(chs, 0)
    IN  [chs |-> chs, idx |-> idx, parts |-> 0, out |-> idx < Len(chs)]

\* the call after a response, with or without audio, up to its next await
SpeechAfter(sp, audio) ==
    LET idx == NextSpoken(sp.chs, sp.idx + 1)
    IN  [chs |-> sp.chs, idx |-> idx, parts |-> sp.parts + (IF audio THEN 1 ELSE 0),
         out |-> idx < Len(sp.chs)]

\* the loop is over and audioParts is not empty: the call resolves
SpeechResolves(sp) == ~sp.out /\ sp.parts > 0

\* a generateSpeech call has settled without ever awaiting, and the handler
\* that awaits it has not resumed yet (it does before any other event)
MicrotaskPending ==
    \/ previewRun.pc = "speech" /\ ~previewRun.sp.out
    \/ genRun.pc = "speech" /\ ~genRun.sp.out

(***************************************************************************)
(* App: file selection, extraction, review controls, reset.                *)
(***************************************************************************)
\* handleFileChange: the file input is rendered in IDLE only
HandleFileChange ==
    /\ appState = "IDLE"
    /\ ~MicrotaskPending
    /\ \E f \in Files :
          /\ file' = f
          /\ errorMsg' = Null
    /\ lastEvent' = <<"user", "fileChange", "ok">>
    /\ UNCHANGED <<appState, logs, extractedData, targetLang, selectedVoice, audioBuffer,
                   isPreviewLoading, extractRun, previewRun, genRun>>
    /\ UNCHANGED <<splitVars, speechVars, playerVars, waveVars>>

\* handleUploadAndExtract up to its await ("Analyze Document", shown in IDLE
\* when a file is chosen)
HandleUploadAndExtract ==
    /\ appState = "IDLE"
    /\ ~MicrotaskPending
    /\ file # Null
    /\ appState' = "EXTRACTING"
    /\ logs' = AddLog(logs, "Uploading file...")
    /\ extractRun' = [pc |-> "await", calls |-> 1]
    /\ lastEvent' = <<"user", "analyze", "ok">>
    /\ UNCHANGED <<file, extractedData, targetLang, selectedVoice, audioBuffer, errorMsg,
                   isPreviewLoading, previewRun, genRun>>
    /\ UNCHANGED <<splitVars, speechVars, playerVars, waveVars>>

\* ExtractResolves with setExtractedData(result) left out
ExtractResolves_DropsData ==
    /\ extractRun.pc = "await"
    /\ ~MicrotaskPending
    /\ \E result \in Documents :
          LET matched == MatchingLanguages(result.detectedLanguage)
              code == IF matched = {} THEN targetLang
                      ELSE SUPPORTED_LANGUAGES[CHOOSE i \in matched :
                                                   \A j \in matched : i <= j].code
          IN  /\ extractedData' = extractedData
              /\ targetLang' = code
              /\ selectedVoice' = VoiceAfterLang(code, selectedVoice)
    /\ logs' = AddLog(logs, "Text extracted. Detected language: ...")
    /\ appState' = "REVIEW"
    /\ extractRun' = [pc |-> "idle", calls |-> extractRun.calls]
    /\ lastEvent' = <<"extract", "extraction", "ok">>
    /\ UNCHANGED <<file, audioBuffer, errorMsg, isPreviewLoading, previewRun, genRun>>
    /\ UNCHANGED <<splitVars, speechVars, playerVars, waveVars>>

\* extractTextAndLanguage resolves: the rest of the try block
ExtractResolves ==
    /\ extractRun.pc = "await"
    /\ ~MicrotaskPending
    /\ \E result \in Documents :
          LET matched == MatchingLanguages(result.detectedLanguage)
              code == IF matched = {} THEN targetLang
                      ELSE SUPPORTED_LANGUAGES[CHOOSE i \in matched :
                                                   \A j \in matched : i <= j].code
          IN  /\ extractedData' = <<result>>
              /\ targetLang' = code
              /\ selectedVoice' = VoiceAfterLang(code, selectedVoice)
    /\ logs' = AddLog(logs, "Text extracted. Detected language: ...")
    /\ appState' = "REVIEW"
    /\ extractRun' = [pc |-> "idle", calls |-> extractRun.calls]
    /\ lastEvent' = <<"extract", "extraction", "ok">>
    /\ UNCHANGED <<file, audioBuffer, errorMsg, isPreviewLoading, previewRun, genRun>>
    /\ UNCHANGED <<splitVars, speechVars, playerVars, waveVars>>

\* ExtractRejects with the catch block going back to the upload view
ExtractRejects_BackToIdle ==
    /\ extractRun.pc = "await"
    /\ ~MicrotaskPending
    /\ errorMsg' = ExtractionError
    /\ appState' = "IDLE"
    /\ extractRun' = [pc |-> "idle", calls |-> extractRun.calls]
    /\ lastEvent' = <<"extract", "extraction", "fail">>
    /\ UNCHANGED <<logs, file, extractedData, targetLang, selectedVoice, audioBuffer,
                   isPreviewLoading, previewRun, genRun>>
    /\ UNCHANGED <<splitVars, speechVars, playerVars, waveVars>>

\* extractTextAndLanguage rejects: the catch block
ExtractRejects ==
    /\ extractRun.pc = "await"
    /\ ~MicrotaskPending
    /\ errorMsg' = ExtractionError
    /\ appState' = "ERROR"
    /\ extractRun' = [pc |-> "idle", calls |-> extractRun.calls]
    /\ lastEvent' = <<"extract", "extraction", "fail">>
    /\ UNCHANGED <<logs, file, extractedData, targetLang, selectedVoice, audioBuffer,
                   isPreviewLoading, previewRun, genRun>>
    /\ UNCHANGED <<splitVars, speechVars, playerVars, waveVars>>

\* the Language select of the REVIEW view, and the useEffect on [targetLang]
SelectLanguage ==
    /\ appState = "REVIEW"
    /\ extractedData # <<>>
    /\ ~MicrotaskPending
    /\ \E code \in LanguageCodes \ {targetLang} :
          /\ targetLang' = code
          /\ selectedVoice' = VoiceAfterLang(code, selectedVoice)
    /\ lastEvent' = <<"user", "selectLanguage", "ok">>
    /\ UNCHANGED <<appState, logs, file, extractedData, audioBuffer, errorMsg,
                   isPreviewLoading, extractRun, previewRun, genRun>>
    /\ UNCHANGED <<splitVars, speechVars, playerVars, waveVars>>

\* the Voice Model select of the REVIEW view
SelectVoice ==
    /\ appState = "REVIEW"
    /\ extractedData # <<>>
    /\ ~MicrotaskPending
    /\ \E i \in 1..Len(VOICE_OPTIONS) :
          /\ VOICE_OPTIONS[i] # selectedVoice
          /\ selectedVoice' = VOICE_OPTIONS[i]
    /\ lastEvent' = <<"user", "selectVoice", "ok">>
    /\ UNCHANGED <<appState, logs, file, extractedData, targetLang, audioBuffer, errorMsg,
                   isPreviewLoading, extractRun, previewRun, genRun>>
    /\ UNCHANGED <<splitVars, speechVars, playerVars, waveVars>>

\* resetApp with setAudioBuffer(null) left out
ResetApp_KeepsAudioBuffer ==
    /\ appState \in {"ERROR", "PLAYBACK"}
    /\ ~MicrotaskPending
    /\ appState' = "IDLE"
    /\ file' = Null
    /\ extractedData' = <<>>
    /\ logs' = <<>>
    /\ errorMsg' = Null
    /\ lastEvent' = <<"user", "reset", "ok">>
    /\ UNCHANGED <<audioBuffer, targetLang, selectedVoice, isPreviewLoading, extractRun,
                   previewRun, genRun>>
    /\ UNCHANGED <<splitVars, speechVars, playerVars, waveVars>>

\* resetApp: "Try Again" of the ERROR view, "Create Another Audiobook" of the
\* PLAYBACK view
ResetApp ==
    /\ appState \in {"ERROR", "PLAYBACK"}
    /\ ~MicrotaskPending
    /\ appState' = "IDLE"
    /\ file' = Null
    /\ extractedData' = <<>>
    /\ audioBuffer' = Null
    /\ logs' = <<>>
    /\ errorMsg' = Null
    /\ lastEvent' = <<"user", "reset", "ok">>
    /\ UNCHANGED <<targetLang, selectedVoice, isPreviewLoading, extractRun, previewRun, genRun>>
    /\ UNCHANGED <<splitVars, speechVars, playerVars, waveVars>>

(***************************************************************************)
(* App: handlePreview.  Nothing in it sets appState, errorMsg or logs.     *)
(***************************************************************************)
\* the snippet length of handlePreview (300 in the source), scaled with the texts
SnippetLength == 2

\* PreviewFinally with the catch block of the other handlers: a failure sets
\* errorMsg and ERROR
PreviewFinally_ToError(stage, outcome) ==
    /\ isPreviewLoading' = FALSE
    /\ previewRun' = IdleRun
    /\ lastEvent' = <<"preview", stage, outcome>>
    /\ errorMsg' = IF outcome = "fail" THEN "Preview generation failed." ELSE errorMsg
    /\ appState' = IF outcome = "fail" THEN "ERROR" ELSE appState
    /\ UNCHANGED <<logs, file, extractedData, targetLang, selectedVoice, audioBuffer,
                   extractRun, genRun>>
    /\ UNCHANGED <<splitVars, speechVars, playerVars, waveVars>>

\* the catch and finally blocks of handlePreview, or the end of its try block
\* and the finally block
PreviewFinally(stage, outcome) ==
    /\ isPreviewLoading' = FALSE
    /\ previewRun' = IdleRun
    /\ lastEvent' = <<"preview", stage, outcome>>
    /\ UNCHANGED <<appState, logs, file, extractedData, targetLang, selectedVoice, audioBuffer,
                   errorMsg, extractRun, genRun>>
    /\ UNCHANGED <<splitVars, speechVars, playerVars, waveVars>>

\* a step of handlePreview that leaves it at an await
PreviewContinues(run, stage, outcome) ==
    /\ previewRun' = run
    /\ lastEvent' = <<"preview", stage, outcome>>
    /\ UNCHANGED <<appState, logs, file, extractedData, targetLang, selectedVoice, audioBuffer,
                   errorMsg, isPreviewLoading, extractRun, genRun>>
    /\ UNCHANGED <<splitVars, speechVars, playerVars, waveVars>>

\* handlePreview up to its first await ("Listen Preview", disabled while
\* isPreviewLoading)
HandlePreview ==
    /\ appState = "REVIEW"
    /\ extractedData # <<>>
    /\ ~isPreviewLoading
    /\ ~MicrotaskPending
    /\ isPreviewLoading' = TRUE
    /\ LET data == extractedData[1]
           snippet == Slice(data.text, 0, SnippetLength)
       IN  previewRun' =
             IF NeedsTranslation(data, targetLang)
                 THEN [pc |-> "translate", text |-> snippet, voice |-> selectedVoice,
                       sp |-> NoSpeech,
                       calls |-> [translate |-> 1, speech |-> 0, decode |-> 0]]
                 ELSE [pc |-> "speech", text |-> snippet, voice |-> selectedVoice,
                       sp |-> SpeechCall(snippet),
                       calls |-> [translate |-> 0, speech |-> 1, decode |-> 0]]
    /\ lastEvent' = <<"user", "preview", "ok">>
    /\ UNCHANGED <<appState, logs, file, extractedData, targetLang, selectedVoice, audioBuffer,
                   errorMsg, extractRun, genRun>>
    /\ UNCHANGED <<splitVars, speechVars, playerVars, waveVars>>

\* translateText resolves in handlePreview: generateSpeech is called
PreviewTranslateResolves ==
    /\ previewRun.pc = "translate"
    /\ ~MicrotaskPending
    /\ \E t \in Translations :
          PreviewContinues([previewRun EXCEPT !.pc = "speech", !.text = t,
                                              !.sp = SpeechCall(t),
                                              !.calls.speech = @ + 1],
                           "translation", "ok")

\* translateText rejects in handlePreview
PreviewTranslateRejects ==
    /\ previewRun.pc = "translate"
    /\ ~MicrotaskPending
    /\ PreviewFinally("translation", "fail")

\* generateSpeech rejected before any request: no chunk to speak
PreviewSpeechSettles ==
    /\ previewRun.pc = "speech"
    /\ ~previewRun.sp.out
    /\ PreviewFinally("synthesis", "fail")

\* a synthesis request of the preview gets its response, with audio or without
PreviewSpeechResponse ==
    /\ previewRun.pc = "speech"
    /\ previewRun.sp.out
    /\ ~MicrotaskPending
    /\ \E audio \in BOOLEAN :
          LET sp == SpeechAfter(previewRun.sp, audio)
          IN  IF sp.out
                  THEN PreviewContinues([previewRun EXCEPT !.sp = sp], "synthesis", "response")
              ELSE IF SpeechResolves(sp)
                  THEN PreviewContinues([previewRun EXCEPT !.sp = sp, !.pc = "decode",
                                                          !.calls.decode = @ + 1],
                                        "synthesis", "ok")
              ELSE PreviewFinally("synthesis", "fail")

\* a synthesis request of the preview fails, or its payload cannot be decoded
PreviewSpeechFails ==
    /\ previewRun.pc = "speech"
    /\ previewRun.sp.out
    /\ ~MicrotaskPending
    /\ PreviewFinally("synthesis", "fail")

\* decodeAudioData resolves in handlePreview: the snippet plays
PreviewDecodeResolves ==
    /\ previewRun.pc = "decode"
    /\ ~MicrotaskPending
    /\ PreviewFinally("decoding", "ok")

\* decodeAudioData rejects in handlePreview
PreviewDecodeRejects ==
    /\ previewRun.pc = "decode"
    /\ ~MicrotaskPending
    /\ PreviewFinally("decoding", "fail")

(***************************************************************************)
(* App: handleGenerateAudiobook.                                           *)
(***************************************************************************)
\* what decodeAudioData rejects with
DecodingError == "DecodeError"
\* the message of the catch block for a thrown value that is not an Error
GenerationFailed == "Generation failed"

\* the catch block of handleGenerateAudiobook, without its setAppState
GenCatch_StaysInStage(message, stage) ==
    /\ errorMsg' = message
    /\ genRun' = [IdleRun EXCEPT !.calls = genRun.calls]
    /\ lastEvent' = <<"gen", stage, "fail">>
    /\ UNCHANGED <<appState, logs, file, extractedData, targetLang, selectedVoice, audioBuffer,
                   isPreviewLoading, extractRun, previewRun>>
    /\ UNCHANGED <<splitVars, speechVars, playerVars, waveVars>>

\* the catch block of handleGenerateAudiobook
GenCatch(message, stage) ==
    /\ errorMsg' = message
    /\ appState' = "ERROR"
    /\ genRun' = [IdleRun EXCEPT !.calls = genRun.calls]
    /\ lastEvent' = <<"gen", stage, "fail">>
    /\ UNCHANGED <<logs, file, extractedData, targetLang, selectedVoice, audioBuffer,
                   isPreviewLoading, extractRun, previewRun>>
    /\ UNCHANGED <<splitVars, speechVars, playerVars, waveVars>>

\* step 2 of handleGenerateAudiobook up to its await, after the logs ls
GenStartSpeech(run, t, ls) ==
    /\ appState' = "GENERATING_AUDIO"
    /\ logs' = AddLog(AddLog(ls, "Generating audio using Gemini TTS..."),
                      "Large documents are processed in chunks...")
    /\ genRun' = [run EXCEPT !.pc = "speech", !.text = t, !.sp = SpeechCall(t),
                             !.calls.speech = @ + 1]

\* handleGenerateAudiobook up to its first await ("Generate Full Audiobook")
HandleGenerateAudiobook ==
    /\ appState = "REVIEW"
    /\ extractedData # <<>>
    /\ ~MicrotaskPending
    /\ LET data == extractedData[1]
           run == [pc |-> "start", text |-> data.text, voice |-> selectedVoice,
                   sp |-> NoSpeech,
                   calls |-> [translate |-> 0, speech |-> 0, decode |-> 0]]
       IN  IF NeedsTranslation(data, targetLang)
               THEN /\ appState' = "TRANSLATING"
                    /\ logs' = AddLog(logs, "Translating full text...")
                    /\ genRun' = [run EXCEPT !.pc = "translate", !.calls.translate = 1]
               ELSE GenStartSpeech(run, data.text, logs)
    /\ lastEvent' = <<"user", "generate", "ok">>
    /\ UNCHANGED <<file, extractedData, targetLang, selectedVoice, audioBuffer, errorMsg,
                   isPreviewLoading, extractRun, previewRun>>
    /\ UNCHANGED <<splitVars, speechVars, playerVars, waveVars>>

\* translateText resolves in handleGenerateAudiobook: step 2 follows
GenTranslateResolves ==
    /\ genRun.pc = "translate"
    /\ ~MicrotaskPending
    /\ \E t \in Translations :
          GenStartSpeech(genRun, t, AddLog(logs, "Translation complete."))
    /\ lastEvent' = <<"gen", "translation", "ok">>
    /\ UNCHANGED <<file, extractedData, targetLang, selectedVoice, audioBuffer, errorMsg,
                   isPreviewLoading, extractRun, previewRun>>
    /\ UNCHANGED <<splitVars, speechVars, playerVars, waveVars>>

\* translateText rejects in handleGenerateAudiobook
GenTranslateRejects ==
    /\ genRun.pc = "translate"
    /\ ~MicrotaskPending
    /\ GenCatch(TranslationError, "translation")

\* generateSpeech rejected before any request: no chunk to speak
GenSpeechSettles ==
    /\ genRun.pc = "speech"
    /\ ~genRun.sp.out
    /\ GenCatch(SpeechError, "synthesis")

\* a synthesis request of the generation gets its response, with audio or
\* without; after the last one generateSpeech settles and step 3 follows
GenSpeechResponse ==
    /\ genRun.pc = "speech"
    /\ genRun.sp.out
    /\ ~MicrotaskPending
    /\ \E audio \in BOOLEAN :
          LET sp == SpeechAfter(genRun.sp, audio)
          IN  IF sp.out
                  THEN /\ genRun' = [genRun EXCEPT !.sp = sp]
                       /\ lastEvent' = <<"gen", "synthesis", "response">>
                       /\ UNCHANGED <<appState, logs, file, extractedData, targetLang,
                                      selectedVoice, audioBuffer, errorMsg, isPreviewLoading,
                                      extractRun, previewRun>>
                       /\ UNCHANGED <<splitVars, speechVars, playerVars, waveVars>>
              ELSE IF SpeechResolves(sp)
                  THEN /\ genRun' = [genRun EXCEPT !.sp = sp, !.pc = "decode",
                                                   !.calls.decode = @ + 1]
                       /\ logs' = AddLog(logs, "Audio generated. Assembling...")
                       /\ lastEvent' = <<"gen", "synthesis", "ok">>
                       /\ UNCHANGED <<appState, file, extractedData, targetLang, selectedVoice,
                                      audioBuffer, errorMsg, isPreviewLoading, extractRun,
                                      previewRun>>
                       /\ UNCHANGED <<splitVars, speechVars, playerVars, waveVars>>
              ELSE GenCatch(SpeechError, "synthesis")

\* a synthesis request of the generation fails, or its payload cannot be decoded
GenSpeechFails ==
    /\ genRun.pc = "speech"
    /\ genRun.sp.out
    /\ ~MicrotaskPending
    /\ GenCatch(SpeechError, "synthesis")

\* decodeAudioData resolves in handleGenerateAudiobook: the end of the try block
GenDecodeResolves ==
    /\ genRun.pc = "decode"
    /\ ~MicrotaskPending
    /\ audioBuffer' = "AudioBuffer"
    /\ appState' = "PLAYBACK"
    /\ logs' = AddLog(logs, "Audiobook ready!")
    /\ genRun' = [IdleRun EXCEPT !.calls = genRun.calls]
    /\ lastEvent' = <<"gen", "decoding", "ok">>
    /\ UNCHANGED <<file, extractedData, targetLang, selectedVoice, errorMsg, isPreviewLoading,
                   extractRun, previewRun>>
    /\ UNCHANGED <<splitVars, speechVars, playerVars, waveVars>>

\* decodeAudioData rejects in handleGenerateAudiobook
GenDecodeRejects ==
    /\ genRun.pc = "decode"
    /\ ~MicrotaskPending
    /\ \E message \in {DecodingError, GenerationFailed} :
          GenCatch(message, "decoding")

(***************************************************************************)
(* App: the specification.                                                 *)
(***************************************************************************)
Init ==
    /\ PlayerOff
    /\ WaveOff
    /\ SplitOff
    /\ SpeechOff
    /\ AppMounted

Next ==
    \/ HandleFileChange
    \/ HandleUploadAndExtract
    \/ ExtractResolves
    \/ ExtractRejects
    \/ SelectLanguage
    \/ SelectVoice
    \/ HandlePreview
    \/ PreviewTranslateResolves
    \/ PreviewTranslateRejects
    \/ PreviewSpeechSettles
    \/ PreviewSpeechResponse
    \/ PreviewSpeechFails
    \/ PreviewDecodeResolves
    \/ PreviewDecodeRejects
    \/ HandleGenerateAudiobook
    \/ GenTranslateResolves
    \/ GenTranslateRejects
    \/ GenSpeechSettles
    \/ GenSpeechResponse
    \/ GenSpeechFails
    \/ GenDecodeResolves
    \/ GenDecodeRejects
    \/ ResetApp

Spec == Init /\ [][Next]_vars

(***************************************************************************)
(* App: error handling and the audio buffer.                               *)
(***************************************************************************)
\* the last event was the failure of a stage of handleUploadAndExtract or of
\* handleGenerateAudiobook
StageFailed == lastEvent[1] \in {"extract", "gen"} /\ lastEvent[3] = "fail"

\* the stages handleGenerateAudiobook calls
GenStages == {"translate", "speech", "decode"}

\* C9: whenever extraction, translation, synthesis or decoding fails, appState
\* is ERROR and errorMsg is not null; in ERROR neither handler is at an await
\* and errorMsg stays set; a run calls each of its stages at most once; and a
\* step taken in ERROR either leaves appState, both runs and their call
\* counts as they are, or is resetApp and ends in IDLE.
C9_FailureLeadsToError ==
    /\ [](StageFailed => appState = "ERROR" /\ errorMsg # Null)
    /\ [](appState = "ERROR" =>
            errorMsg # Null /\ extractRun.pc = "idle" /\ genRun.pc = "idle")
    /\ [](extractRun.calls <= 1 /\ \A stage \in GenStages : genRun.calls[stage] <= 1)
    /\ [][appState = "ERROR" =>
            \/ appState' = "ERROR" /\ extractRun' = extractRun /\ genRun' = genRun
            \/ appState' = "IDLE" /\ lastEvent' = <<"user", "reset", "ok">>]_vars

\* C9 witness: the synthesis of a generation has just failed, after a
\* translation, while a preview is still running; the app is in ERROR with
\* the synthesis message
C9_Witness ==
    /\ lastEvent = <<"gen", "synthesis", "fail">>
    /\ genRun.calls.translate = 1
    /\ previewRun.pc # "idle"
    /\ appState = "ERROR"
    /\ errorMsg = SpeechError

\* C10: audioBuffer is not null only in PLAYBACK; it is null while a
\* handleGenerateAudiobook run is at an await, and null when a run has just
\* failed in translation, synthesis or decoding.
C10_NoPartialResult ==
    /\ audioBuffer # Null => appState = "PLAYBACK"
    /\ genRun.pc # "idle" => audioBuffer = Null
    /\ (lastEvent[1] = "gen" /\ lastEvent[3] = "fail") => audioBuffer = Null

\* C10 witness: a generation whose synthesis produced audio has just failed
\* in decoding while a preview is still loading; no buffer is left
C10_Witness ==
    /\ lastEvent = <<"gen", "decoding", "fail">>
    /\ genRun.calls.decode = 1
    /\ appState = "ERROR"
    /\ audioBuffer = Null
    /\ isPreviewLoading

(***************************************************************************)
(* AudioPlayer: the download link, play and stop.  Buffers, object URLs    *)
(* and source nodes are numbered; the URL created for buffer n is URL n.   *)
(***************************************************************************)
\* the download effect as React flushes it: the cleanup of the previous
\* effect (URL.revokeObjectURL(url)), then createObjectURL for the buffer
Flushed ==
    IF effectDue
        THEN [live |-> (liveUrls \ {effectUrl}) \cup {plBuffer}, url |-> plBuffer]
        ELSE [live |-> liveUrls, url |-> effectUrl]

\* App renders <AudioPlayer audioBuffer=...> (PLAYBACK view): first render
PlMount ==
    /\ plMounted = 0
    /\ plRenders < MaxRenders
    /\ plRenders' = plRenders + 1
    /\ plMounted' = plRenders + 1
    /\ plBuffer' = plRenders + 1
    /\ effectDue' = TRUE
    /\ effectUrl' = 0
    /\ downloadUrl' = 0
    /\ isPlaying' = FALSE
    /\ sourceRef' = 0
    /\ plLast' = "mount"
    /\ UNCHANGED <<liveUrls, sources>>
    /\ UNCHANGED <<splitVars, speechVars, appVars, waveVars>>

\* the effects on [audioBuffer] run after the render
PlEffect ==
    /\ plMounted # 0
    /\ effectDue
    /\ liveUrls' = Flushed.live
    /\ effectUrl' = Flushed.url
    /\ downloadUrl' = Flushed.url
    /\ effectDue' = FALSE
    /\ plLast' = "effect"
    /\ UNCHANGED <<plMounted, plBuffer, plRenders, isPlaying, sourceRef, sources>>
    /\ UNCHANGED <<splitVars, speechVars, appVars, waveVars>>

\* the mounted player is rendered with another audioBuffer; effects still due
\* are flushed before the render
PlSupersede ==
    /\ plMounted # 0
    /\ plRenders < MaxRenders
    /\ plRenders' = plRenders + 1
    /\ plBuffer' = plRenders + 1
    /\ liveUrls' = Flushed.live
    /\ effectUrl' = Flushed.url
    /\ downloadUrl' = Flushed.url
    /\ effectDue' = TRUE
    /\ plLast' = "supersede"
    /\ UNCHANGED <<plMounted, isPlaying, sourceRef, sources>>
    /\ UNCHANGED <<splitVars, speechVars, appVars, waveVars>>

\* the unmount with the effect cleanup left out
PlUnmount_NoCleanup ==
    /\ plMounted # 0
    /\ plMounted' = 0
    /\ plBuffer' = 0
    /\ liveUrls' = Flushed.live
    /\ effectUrl' = 0
    /\ effectDue' = FALSE
    /\ downloadUrl' = 0
    /\ isPlaying' = FALSE
    /\ sourceRef' = 0
    /\ plLast' = "unmount"
    /\ UNCHANGED <<plRenders, sources>>
    /\ UNCHANGED <<splitVars, speechVars, appVars, waveVars>>

\* resetApp leaves PLAYBACK: the player unmounts; effects still due are
\* flushed, then the cleanup of the download effect runs.  Nothing stops the
\* source nodes.
PlUnmount ==
    /\ plMounted # 0
    /\ plMounted' = 0
    /\ plBuffer' = 0
    /\ liveUrls' = Flushed.live \ {Flushed.url}
    /\ effectUrl' = 0
    /\ effectDue' = FALSE
    /\ downloadUrl' = 0
    /\ isPlaying' = FALSE
    /\ sourceRef' = 0
    /\ plLast' = "unmount"
    /\ UNCHANGED <<plRenders, sources>>
    /\ UNCHANGED <<splitVars, speechVars, appVars, waveVars>>

\* togglePlay with isPlaying false: playAudio
PlayAudio ==
    /\ plMounted # 0
    /\ ~isPlaying
    /\ Len(sources) < MaxSources
    /\ sources' = Append(sources, [state |-> "playing", buffer |-> plBuffer,
                                   player |-> plMounted])
    /\ sourceRef' = Len(sources) + 1
    /\ isPlaying' = TRUE
    /\ plLast' = "play"
    /\ UNCHANGED <<plMounted, plBuffer, plRenders, effectDue, effectUrl, liveUrls,
                   downloadUrl>>
    /\ UNCHANGED <<splitVars, speechVars, appVars, waveVars>>

\* togglePlay with isPlaying true: stopAudio.  stop() ends a playing source;
\* its 'ended' event is dispatched later.
StopAudio ==
    /\ plMounted # 0
    /\ isPlaying
    /\ sources' = [k \in 1..Len(sources) |->
                      IF k = sourceRef /\ sources[k].state = "playing"
                          THEN [sources[k] EXCEPT !.state = "stopped"]
                          ELSE sources[k]]
    /\ sourceRef' = 0
    /\ isPlaying' = FALSE
    /\ plLast' = "stop"
    /\ UNCHANGED <<plMounted, plBuffer, plRenders, effectDue, effectUrl, liveUrls,
                   downloadUrl>>
    /\ UNCHANGED <<splitVars, speechVars, appVars, waveVars>>

\* source.onended = () => setIsPlaying(false), a no-op once the player that
\* created the source is unmounted
OnEnded(k) ==
    /\ sources' = [sources EXCEPT ![k].state = "done"]
    /\ isPlaying' = IF sources[k].player = plMounted THEN FALSE ELSE isPlaying
    /\ UNCHANGED <<plMounted, plBuffer, plRenders, effectDue, effectUrl, liveUrls,
                   downloadUrl, sourceRef>>
    /\ UNCHANGED <<splitVars, speechVars, appVars, waveVars>>

\* a playing source reaches the end of its buffer: 'ended'
SourceEnds ==
    \E k \in 1..Len(sources) :
        /\ sources[k].state = "playing"
        /\ OnEnded(k)
        /\ plLast' = "ended"

\* the 'ended' event of a source that stop() ended
EndedAfterStop ==
    \E k \in 1..Len(sources) :
        /\ sources[k].state = "stopped"
        /\ OnEnded(k)
        /\ plLast' = "endedAfterStop"

PlayerInit ==
    /\ SplitOff
    /\ SpeechOff
    /\ AppMounted
    /\ WaveOff
    /\ PlayerOff

PlayerNext ==
    \/ PlMount
    \/ PlEffect
    \/ PlSupersede
    \/ PlUnmount
    \/ PlayAudio
    \/ StopAudio
    \/ SourceEnds
    \/ EndedAfterStop

PlayerSpec == PlayerInit /\ [][PlayerNext]_vars

\* C11: at most one object URL is unrevoked at any time; once the effects of
\* a render have run it is the URL of the buffer the player shows (the URL
\* of a superseded buffer is revoked); and none is unrevoked while the player
\* is unmounted (after resetApp).
C11_DownloadUrlRevoked ==
    /\ Cardinality(liveUrls) <= 1
    /\ ~effectDue => liveUrls \subseteq {plBuffer}
    /\ plMounted = 0 => liveUrls = {}

\* C11 witness: the player was unmounted after its buffer had been superseded
\* once and both URLs had been created; none is left
C11_Witness ==
    /\ plLast = "unmount"
    /\ plRenders = 2
    /\ liveUrls = {}

(***************************************************************************)
(* AudioPlayer: drawWaveform.  Samples are whole multiples of full scale.  *)
(***************************************************************************)
\* the sample values of the bounded arrays (-1.0, 0.0, 1.0)
SampleValues == {-1, 0, 1}

SampleArrays == UNION {[1..n -> SampleValues] : n \in 0..MaxSamples}

\* Math.ceil(a / b) for a >= 0, b > 0
CeilDiv(a, b) == (a + b - 1) \div b

\* const step = Math.ceil(data.length / width)
WfStep == CeilDiv(Len(wfData), wfWidth)

\* the indices i * step + j of the inner loop that hold a sample; data[k] is
\* undefined for the others, and no comparison with undefined is true
WindowIndices(i) == {k \in (i * WfStep)..(i * WfStep + WfStep - 1) : k < Len(wfData)}

\* min after the inner loop, from let min = 1.0
WindowMin(i) ==
    LET below == {wfData[k + 1] : k \in WindowIndices(i)} \cap {v \in SampleValues : v < 1}
    IN  IF below = {} THEN 1 ELSE CHOOSE v \in below : \A w \in below : v <= w

\* max after the inner loop, from let max = -1.0
WindowMax(i) ==
    LET above == {wfData[k + 1] : k \in WindowIndices(i)} \cap {v \in SampleValues : v > -1}
    IN  IF above = {} THEN -1 ELSE CHOOSE v \in above : \A w \in above : v >= w

\* one iteration of for (let i = 0; i < width; i++), up to its fillRect
WfColumn ==
    /\ wfPc = "loop"
    /\ wfI < wfWidth
    /\ wfColumns' = Append(wfColumns, [min |-> WindowMin(wfI), max |-> WindowMax(wfI)])
    /\ wfI' = wfI + 1
    /\ UNCHANGED <<wfData, wfWidth, wfPc>>
    /\ UNCHANGED <<splitVars, speechVars, appVars, playerVars>>

\* the loop condition fails: drawWaveform returns
WfReturn ==
    /\ wfPc = "loop"
    /\ wfI >= wfWidth
    /\ wfPc' = "done"
    /\ UNCHANGED <<wfData, wfWidth, wfI, wfColumns>>
    /\ UNCHANGED <<splitVars, speechVars, appVars, playerVars>>

\* drawWaveform() up to its loop, for every bounded sample array and width
WaveInit ==
    /\ SplitOff
    /\ SpeechOff
    /\ AppMounted
    /\ PlayerOff
    /\ wfData \in SampleArrays
    /\ wfWidth \in 1..MaxWidth
    /\ wfI = 0
    /\ wfColumns = <<>>
    /\ wfPc = "loop"

WaveNext ==
    \/ WfColumn
    \/ WfReturn

WaveSpec == WaveInit /\ [][WaveNext]_vars

\* the window of column i holds no sample
EmptyWindow(i) == WindowIndices(i) = {}

\* C12: drawWaveform computes exactly N = width columns, and every column
\* whose window holds no sample is the default column {min: 0, max: 0}.
C12_WaveformColumns ==
    wfPc = "done" =>
        /\ Len(wfColumns) = wfWidth
        /\ \A i \in 0..(wfWidth - 1) :
              EmptyWindow(i) => wfColumns[i + 1] = [min |-> 0, max |-> 0]

(***************************************************************************)
(* splitTextSafe: chunk count, hard splits, termination.                   *)
(***************************************************************************)
\* the chunk length bound of C2 for a piece c
WithinBound(c, L) == Len(c) <= L \/ IndivisibleRun(c)

\* the cut positions one more piece can reach from the positions in R
OnePieceFurther(t, L, R) ==
    {e \in 1..Len(t) : \E st \in R : st < e /\ WithinBound(Slice(t, st, e), L)}

RECURSIVE PiecesToReachEnd(_, _, _, _)
\* R holds the positions reachable with k pieces: the least number of pieces
\* that reaches the end of t
PiecesToReachEnd(t, L, R, k) ==
    IF Len(t) \in R THEN k
    ELSE PiecesToReachEnd(t, L, OnePieceFurther(t, L, R), k + 1)

\* the minimum number of contiguous pieces, each within the bound, that t
\* can be cut into
MinPieces(t, L) == PiecesToReachEnd(t, L, {0}, 0)

\* C13: the number of chunks splitTextSafe returns is the minimum number of
\* contiguous pieces within the chunk length bound that the text can be cut
\* into.
C13_MinimalChunkCount ==
    splitPc = "done" => Len(chunks) = MinPieces(text, maxLength)

(***************************************************************************)
(* generateSpeech: progress.                                               *)
(***************************************************************************)
\* the synchronous steps of generateSpeech: the function runs on until its
\* next await or its end
GsRuns == GsCall \/ GsSkip \/ GsRequest \/ GsFinish

\* what the collaborator does with an issued request
GsAnswered == GsResponse \/ GsRequestFails

\* the texts of the calls whose progress is checked
SpeechLiveTexts == UNION {[1..n -> SpeechAlphabet] : n \in 0..MaxLiveTextLen}

SpeechLiveInit ==
    /\ PlayerOff
    /\ WaveOff
    /\ SplitOff
    /\ AppMounted
    /\ gsText \in SpeechLiveTexts
    /\ gsChunks = <<>>
    /\ gsIndex = 0
    /\ audioParts = <<>>
    /\ gsPc = "call"
    /\ gsResult = NoData
    /\ gsThrown = Null
    /\ gsCaught = Null
    /\ gsRejections = 0
    /\ inflight = {}
    /\ gsTrace = <<>>

\* generateSpeech where the function keeps running between awaits and every
\* issued request eventually yields a response or a failure
SpeechLiveSpec ==
    SpeechLiveInit /\ [][SpeechNext]_vars /\ WF_vars(GsRuns) /\ WF_vars(GsAnswered)

\* C14: a generateSpeech call eventually resolves with a merged stream or
\* rejects with an error, and no chunk is ever requested more than once.
C14_RunsToCompletion ==
    /\ <>GsSettled
    /\ [](gsPc = "resolved" => gsResult # NoData /\ gsThrown = Null)
    /\ [](gsPc = "rejected" => gsThrown # Null /\ gsResult = NoData)
    /\ [](\A i \in 0..(Len(gsChunks) - 1) : RequestsFor(i) <= 1)

\* C14 witness: a call of three requests has resolved although one of its
\* responses carried no payload
C14_Witness ==
    /\ gsPc = "resolved"
    /\ gsResult # NoData
    /\ Cardinality(Events({"request"})) = 3
    /\ \E p \in Events({"response"}) : ~PayloadAt(p)

\* no split point starts at an index strictly after the cursor st and before
\* st + L
NoMarkerInWindow(t, st, L) == PointsIn(t, st, st + L - 1) = {}

\* C15: when the unconsumed text is longer than maxLength and no marker
\* starts strictly after the cursor and before cursor + maxLength, the
\* iteration pushes exactly the maxLength characters from the cursor and
\* moves the cursor by maxLength.
C15_HardSplit ==
    [][(/\ splitPc = "loop"
        /\ Len(text) - start > maxLength
        /\ NoMarkerInWindow(text, start, maxLength))
       => /\ chunks' = Append(chunks, Slice(text, start, start + maxLength))
          /\ start' = start + maxLength]_vars

\* C15 witness: the last iteration split a word: its window held no marker,
\* the chunk pushed has maxLength characters and ends in a letter, and the
\* rest starts with a letter
C15_Witness ==
    /\ splitPc = "loop"
    /\ maxLength >= 2
    /\ Len(chunks) >= 1
    /\ start < Len(text)
    /\ LET c == chunks[Len(chunks)]
           st == start - Len(c)
       IN  /\ Len(text) - st > maxLength
           /\ NoMarkerInWindow(text, st, maxLength)
           /\ c = Slice(text, st, st + maxLength)
           /\ c[maxLength] = "a"
           /\ text[start + 1] = "a"

\* the texts of the calls whose termination is checked
SplitLiveTexts == UNION {[1..n -> Alphabet] : n \in 0..MaxLiveSplitLen}

SplitLiveInit ==
    /\ PlayerOff
    /\ WaveOff
    /\ SpeechOff
    /\ AppMounted
    /\ text \in SplitLiveTexts
    /\ maxLength \in 1..MaxBudget
    /\ start = 0
    /\ chunks = <<>>
    /\ splitPc = "loop"

\* splitTextSafe where the loop keeps running
SplitLiveSpec == SplitLiveInit /\ [][SplitNext]_vars /\ WF_vars(SplitNext)

\* C16: splitTextSafe returns; every loop iteration moves the cursor forward
\* or is the one that ends the loop; no chunk is empty; a non-empty text of
\* at most maxLength characters comes back as one chunk, the empty text as
\* none.
C16_Terminates ==
    /\ <>(splitPc = "done")
    /\ [][start' > start \/ (splitPc = "loop" /\ splitPc' = "done")]_vars
    /\ [](\A k \in 1..Len(chunks) : Len(chunks[k]) > 0)
    /\ []((splitPc = "done" /\ text # <<>> /\ Len(text) <= maxLength) => chunks = <<text>>)
    /\ []((splitPc = "done" /\ text = <<>>) => chunks = <<>>)

\* C16 witness: splitTextSafe has returned after two iterations that moved
\* the cursor and a final one
C16_Witness ==
    /\ splitPc = "done"
    /\ Len(chunks) = 3
    /\ start > 0
    /\ start < Len(text)

(***************************************************************************)
(* App: the transitions of appState.                                       *)
(***************************************************************************)
\* the edges C17 lists
ListedEdges ==
    { <<"IDLE", "EXTRACTING">>, <<"EXTRACTING", "REVIEW">>, <<"EXTRACTING", "ERROR">>,
      <<"REVIEW", "TRANSLATING">>, <<"REVIEW", "GENERATING_AUDIO">>, <<"REVIEW", "ERROR">>,
      <<"TRANSLATING", "GENERATING_AUDIO">>, <<"TRANSLATING", "ERROR">>,
      <<"GENERATING_AUDIO", "PLAYBACK">>, <<"GENERATING_AUDIO", "ERROR">>,
      <<"PLAYBACK", "IDLE">>, <<"ERROR", "IDLE">> }

\* C17: every change of appState follows a listed edge (so PLAYBACK is
\* entered from GENERATING_AUDIO only), and only a user action, never the
\* completion of an async handler, moves the app out of IDLE, PLAYBACK or
\* ERROR.
C17_AppStateEdges ==
    /\ [][appState' # appState => <<appState, appState'>> \in ListedEdges]_vars
    /\ [][(appState \in {"IDLE", "PLAYBACK", "ERROR"} /\ appState' # appState)
            => lastEvent'[1] = "user"]_vars

\* C17 witness: a preview started in REVIEW has completed after the session
\* was reset; the app is still in IDLE
C17_Witness ==
    /\ appState = "IDLE"
    /\ lastEvent = <<"preview", "decoding", "ok">>
    /\ file = Null

\* C18: in PLAYBACK audioBuffer and file are not null; in REVIEW,
\* TRANSLATING and GENERATING_AUDIO extractedData is not null; in ERROR
\* errorMsg is not null.
C18_ViewInvariants ==
    /\ appState = "PLAYBACK" => audioBuffer # Null /\ file # Null
    /\ appState \in {"REVIEW", "TRANSLATING", "GENERATING_AUDIO"} => extractedData # <<>>
    /\ appState = "ERROR" => errorMsg # Null

\* C18 witness: the audiobook of a translated document is ready, with its
\* file, document and buffer in place
C18_Witness ==
    /\ appState = "PLAYBACK"
    /\ genRun.calls.translate = 1
    /\ audioBuffer # Null
    /\ file # Null
    /\ extractedData # <<>>

\* the synthesis requests of a handler's generateSpeech call that await
\* their response
Outstanding(run) == IF run.pc = "speech" /\ run.sp.out THEN 1 ELSE 0

\* C19: at most one speech-synthesis request is outstanding at any time,
\* counting those of handlePreview and of handleGenerateAudiobook together.
C19_OneRequestAcrossApp == Outstanding(previewRun) + Outstanding(genRun) <= 1

(***************************************************************************)
(* AudioPlayer: isPlaying and the source nodes.                            *)
(***************************************************************************)
\* the source nodes the mounted player started that are still playing
PlayingSources ==
    {k \in 1..Len(sources) : sources[k].player = plMounted /\ sources[k].state = "playing"}

\* C20: while the player is mounted, isPlaying is true exactly when a source
\* node it started is still playing, and at most one such node plays.
C20_IsPlayingExact ==
    plMounted # 0 =>
        /\ isPlaying <=> PlayingSources # {}
        /\ Cardinality(PlayingSources) <= 1

\* C21: every source node that is still playing was created from the buffer
\* the player shows now: none plays on from a buffer that was discarded by
\* resetApp (the player is unmounted) or superseded.
C21_NoOrphanPlayback ==
    \A k \in 1..Len(sources) :
        sources[k].state = "playing" => (plMounted # 0 /\ sources[k].buffer = plBuffer)

(***************************************************************************)
(* App: translation before synthesis.                                      *)
(***************************************************************************)
\* the detected language of the document contains the name of the selected
\* language, whatever the case of the letters
LanguageMatches ==
    Includes(ToLowerCase(extractedData[1].detectedLanguage),
             ToLowerCase(LangConfig(targetLang).name))

\* C22: a click on "Generate Full Audiobook" enters TRANSLATING and calls
\* translateText exactly when the detected language does not contain the
\* selected language's name (case-insensitive); otherwise the app goes from
\* REVIEW to GENERATING_AUDIO and generateSpeech gets the extracted text.
\* While translateText is awaited no synthesis call has been made, and the
\* synthesis of a translated run starts in the step in which translateText
\* resolves.
C22_TranslateWhenNeeded ==
    /\ [][(appState = "REVIEW" /\ lastEvent' = <<"user", "generate", "ok">>) =>
            IF LanguageMatches
                THEN /\ appState' = "GENERATING_AUDIO"
                     /\ genRun'.calls = [translate |-> 0, speech |-> 1, decode |-> 0]
                     /\ genRun'.text = extractedData[1].text
                     /\ genRun'.sp = SpeechCall(extractedData[1].text)
                ELSE /\ appState' = "TRANSLATING"
                     /\ genRun'.pc = "translate"
                     /\ genRun'.calls = [translate |-> 1, speech |-> 0, decode |-> 0]]_vars
    /\ [](appState = "TRANSLATING" <=> genRun.pc = "translate")
    /\ [](genRun.pc = "translate" => genRun.calls.speech = 0 /\ Outstanding(genRun) = 0)
    /\ [][(genRun.pc = "translate" /\ genRun'.calls.speech = 1) =>
            lastEvent' = <<"gen", "translation", "ok">>]_vars

\* C22 witness: the document is in "hindi", Hindi is selected, and the click
\* went from REVIEW straight to GENERATING_AUDIO with no translation
C22_Witness ==
    /\ lastEvent = <<"user", "generate", "ok">>
    /\ appState = "GENERATING_AUDIO"
    /\ targetLang = "hi"
    /\ extractedData[1].detectedLanguage = <<"h", "i", "n", "d", "i">>
    /\ genRun.calls.translate = 0

(***************************************************************************)
(* App: handlePreview and resetApp.                                        *)
(***************************************************************************)
\* C23: no step of a handlePreview run changes appState, extractedData,
\* audioBuffer, errorMsg or logs; isPreviewLoading is true exactly while a
\* run is at an await, so it is false again when the run has finished; and
\* a run starts only while isPreviewLoading is false.
C23_PreviewFrame ==
    /\ [][(previewRun' # previewRun \/ lastEvent'[1] = "preview") =>
            UNCHANGED <<appState, extractedData, audioBuffer, errorMsg, logs>>]_vars
    /\ [](isPreviewLoading <=> previewRun.pc # "idle")
    /\ [][lastEvent' = <<"user", "preview", "ok">> =>
            (~isPreviewLoading /\ previewRun.pc = "idle") \/ UNCHANGED vars]_vars

\* C23 witness: the synthesis of a preview has just failed; the app is
\* still in REVIEW with no error message and the preview button is enabled
\* again
C23_Witness ==
    /\ lastEvent = <<"preview", "synthesis", "fail">>
    /\ appState = "REVIEW"
    /\ errorMsg = Null
    /\ ~isPreviewLoading
    /\ previewRun.pc = "idle"

\* C24: resetApp is a full reset: in the state resetApp leaves, appState,
\* file, extractedData, audioBuffer, logs, errorMsg, targetLang,
\* selectedVoice and isPreviewLoading all have their initial useState values.
C24_FullReset ==
    lastEvent = <<"user", "reset", "ok">> =>
        /\ appState = "IDLE"
        /\ file = Null
        /\ extractedData = <<>>
        /\ audioBuffer = Null
        /\ logs = <<>>
        /\ errorMsg = Null
        /\ targetLang = "en"
        /\ selectedVoice = "Puck"
        /\ isPreviewLoading = FALSE

(***************************************************************************)
(* generateSpeech: what the caller sees of a failure.                      *)
(***************************************************************************)
\* the errors the catch block of generateSpeech can catch
GsCauses == {"request failed", "base64ToBytes failed", NoAudioError}

\* C25: whatever made generateSpeech fail (a failed request, a payload that
\* cannot be decoded, no chunk yielding audio), the caller gets exactly one
\* rejection per call, always with the message of SpeechError and without a
\* result; a call that has not failed has thrown nothing.
C25_OneErrorOneMessage ==
    /\ gsRejections <= 1
    /\ (gsPc = "rejected") <=> (gsRejections = 1)
    /\ gsPc = "rejected" =>
          /\ gsCaught \in GsCauses
          /\ gsThrown = SpeechError
          /\ gsResult = NoData
    /\ gsPc # "rejected" => (gsThrown = Null /\ gsCaught = Null)

\* C25 witness: every chunk was answered without a payload, so the catch
\* block caught NoAudioError, and the caller got SpeechError instead
C25_Witness ==
    /\ gsPc = "rejected"
    /\ gsCaught = NoAudioError
    /\ gsThrown = SpeechError
    /\ gsThrown # gsCaught
    /\ Events({"response"}) # {}
    /\ Events({"failure"}) = {}

====
